---------------------------- MODULE Spec2Model ----------------------------
(***************************************************************************)
(* A model of the analytics system: the ingestion service (POST /event),   *)
(* the BullMQ queue 'analytics-events', the processor worker that saves    *)
(* events with mongoose, and the reporting service (GET /stats).           *)
(*                                                                         *)
(* The queue itself is the BullMQ library.  Its behaviour is the one the   *)
(* code selects by the options it passes: eventQueue.add(name, data) with  *)
(* no job options (no `attempts`, no `backoff`), and new Worker(name, fn,  *)
(* {connection, concurrency}) with the default lock and stalled-job        *)
(* settings.                                                               *)
(***************************************************************************)
EXTENDS Integers, Sequences, FiniteSets, TLC

VARIABLES
    requests,   \* the POST /event requests so far: candidate body and reply
    jobs,       \* the jobs of queue 'analytics-events', keyed by job id
    wait,       \* the ids of the waiting jobs, the next one to hand out first
    runs,       \* the processor invocations in progress, one per leased job
    store,      \* the events collection, in insertion order
    faults,     \* how many crashes and stalls have happened
    report,     \* the reporting service's latest reply to GET /stats
    log,        \* what the worker's 'completed' and 'failed' handlers logged
    aggregated, \* the reporting service's latest reply to GET /stats/aggregated
    zone        \* the time zone of the reporting service's process

vars == <<requests, jobs, wait, runs, store, faults, report, log, aggregated, zone>>

---------------------------------------------------------------------------
(* Bounds of the model *)

MaxSubmits == 2     \* POST /event requests in a behaviour
MaxFaults == 1      \* worker crashes and stalls in a behaviour
PoolJobs == 11      \* jobs waiting when a burst meets the worker
MaxEvents == 3      \* events in a store whose contents are enumerated

---------------------------------------------------------------------------
(* Values *)

\* A field that is not in the JSON body (undefined after destructuring).
Absent == "<absent>"

\* Instants are milliseconds counted from 2025-11-15T00:00:00.000Z.
DayMs == 86400000

\* new Date(x).getTime() of an unparseable x (NaN): an Invalid Date.  The
\* number stands for NaN and is the instant of no timestamp of the model.
InvalidDate == -2000000000

\* A JSON number 0 in a field that should hold a string.
Zero == "<0>"

\* A JSON null in a field.
JsonNull == "<json null>"

\* new Date(0) and new Date(null): 1970-01-01T00:00:00.000Z, a valid date.
\* The instant lies beyond the integers of the checker; the number stands
\* for it and is earlier than every other instant of the model.
Epoch == -1900000000

\* new Date(timestamp): the timestamp values of the model and their instants.
ParseDate(s) ==
    CASE s = "2025-11-15T10:00:00Z" -> 36000000
      [] s \in {Zero, JsonNull} -> Epoch
      [] s = "2025-11-15T10:05:00Z" -> 36300000
      [] s = "2025-11-15T23:59:59.999Z" -> DayMs - 1
      [] s = "2025-11-16T00:00:00.000Z" -> DayMs
      [] s = "2025-11-15T00:00:00.000Z" -> 0
      [] s = "2025-11-15T10:10:00Z" -> 36600000
      [] s = "2025-11-15T10:15:00Z" -> 36900000
      [] s = "2025-11-02T00:00:00.000Z" -> -13 * DayMs
      [] s = "2025-11-02T23:59:59.999Z" -> -12 * DayMs - 1
      [] s = "2025-11-03T00:00:00.000Z" -> -12 * DayMs
      [] OTHER -> InvalidDate

\* JavaScript's !x for the values a JSON field takes here: undefined, "", 0
\* and null.
Falsy(x) == x \in {Absent, "", Zero, JsonNull}

Cand(s, t, p, u, ts) ==
    [site_id |-> s, event_type |-> t, path |-> p, user_id |-> u, timestamp |-> ts]

\* The request bodies a client sends in this model.
Candidates ==
    { Cand("site-abc-123", "page_view", "/pricing", "user-1", "2025-11-15T10:00:00Z"),
      Cand("site-abc-123", "page_view", Absent, Absent, "2025-11-15T10:05:00Z"),
      Cand("site-abc-123", "page_view", "/pricing", "user-1", "not-a-date"),
      Cand(Absent, "page_view", "/pricing", "user-1", "2025-11-15T10:00:00Z"),
      Cand("", "page_view", "/pricing", "user-1", "2025-11-15T10:00:00Z"),
      Cand("site-abc-123", Absent, "/pricing", "user-1", "2025-11-15T10:00:00Z"),
      Cand("site-abc-123", "", "/pricing", "user-1", "2025-11-15T10:00:00Z"),
      Cand("site-abc-123", Zero, "/pricing", "user-1", "2025-11-15T10:00:00Z"),
      Cand("site-abc-123", "page_view", "/pricing", "user-1", Absent),
      Cand("site-abc-123", "page_view", "/pricing", "user-1", ""),
      Cand(Absent, Absent, Absent, Absent, Absent) }

\* The request bodies sent while the whole pipeline runs.
CoreCandidates ==
    { Cand("site-abc-123", "page_view", "/pricing", "user-1", "2025-11-15T10:00:00Z"),
      Cand("site-abc-123", "page_view", "/pricing", "user-1", "not-a-date"),
      Cand("site-abc-123", Absent, "/pricing", "user-1", "2025-11-15T10:00:00Z"),
      Cand("site-abc-123", Zero, "/pricing", "user-1", "2025-11-15T10:00:00Z") }

---------------------------------------------------------------------------
(* The ingestion service: POST /event *)

RequiredFields == {"site_id", "event_type", "timestamp"}

NoReply == [code |-> 0, status |-> "", fields |-> {}]

\* res.json({ status: 'accepted' })
AcceptedReply == [code |-> 200, status |-> "accepted", fields |-> {}]

\* A variant of the 400 reply that lists only the fields found missing.
RejectionReplyNaming(c) ==
    [code |-> 400, status |-> "error",
     fields |-> {f \in {"site_id", "event_type", "timestamp"} :
                    c[f] \in {Absent, "", Zero}}]

\* res.status(400).json({status: 'error',
\*   message: 'Missing required fields: site_id, event_type, timestamp'}):
\* the message is a constant; `fields` are the field names it lists.
RejectionReply(c) == [code |-> 400, status |-> "error", fields |-> RequiredFields]

\* res.status(500).json({ status: 'error', message: 'Failed to accept event' })
FailureReply == [code |-> 500, status |-> "error", fields |-> {}]

\* A faulty variant of the check: it tests for undefined only, so an empty
\* string passes.
InvalidIgnoresEmpty(c) ==
    c.site_id = Absent \/ c.event_type = Absent \/ c.timestamp = Absent

\* if (!site_id || !event_type || !timestamp)
Invalid(c) == Falsy(c.site_id) \/ Falsy(c.event_type) \/ Falsy(c.timestamp)

\* A faulty variant of the job data: a missing optional field is sent as
\* the empty string.
JobDataEmptyDefaults(c) ==
    [site_id |-> c.site_id, event_type |-> c.event_type,
     path |-> IF c.path = Absent THEN "" ELSE c.path,
     user_id |-> IF c.user_id = Absent THEN "" ELSE c.user_id,
     timestamp |-> c.timestamp]

\* The job data handed to eventQueue.add: the five destructured fields.
JobData(c) ==
    [site_id |-> c.site_id, event_type |-> c.event_type, path |-> c.path,
     user_id |-> c.user_id, timestamp |-> c.timestamp]

\* The job options of eventQueue.add('process-event', data): none are passed,
\* so the job gets BullMQ's default number of attempts.
JobAttempts == 1

NewJob(c) ==
    [data |-> JobData(c), state |-> "waiting", attemptsMade |-> 0,
     stalledCounter |-> 0, lock |-> 0, leases |-> 0, failedReason |-> ""]

NewRequest(c, enq, res) == [cand |-> c, enq |-> enq, res |-> res]

\* A faulty variant of the rejection: the 400 reply is sent without `return`,
\* so the handler goes on to enqueue the event.
AcceptRejectFallsThrough(c) ==
    /\ Len(requests) < MaxSubmits
    /\ (Falsy(c.site_id) \/ Falsy(c.event_type) \/ Falsy(c.timestamp))
    /\ requests' = Append(requests, NewRequest(c, "none", RejectionReply(c)))
    /\ jobs' = jobs @@ (Len(requests) + 1 :> NewJob(c))
    /\ wait' = Append(wait, Len(requests) + 1)
    /\ UNCHANGED <<runs, store, faults, report, log, aggregated, zone>>

\* Validation fails: reply 400 and return.
AcceptReject(c) ==
    /\ Len(requests) < MaxSubmits
    /\ Invalid(c)
    /\ requests' = Append(requests, NewRequest(c, "none", RejectionReply(c)))
    /\ UNCHANGED <<jobs, wait, runs, store, faults, report, log, aggregated, zone>>

\* A faulty variant of the handler: it also inserts the event into the
\* store itself.
AcceptEnqueueAndStore(c) ==
    /\ Len(requests) < MaxSubmits
    /\ ~Invalid(c)
    /\ requests' = Append(requests, NewRequest(c, "added", NoReply))
    /\ jobs' = jobs @@ (Len(requests) + 1 :> NewJob(c))
    /\ wait' = Append(wait, Len(requests) + 1)
    /\ store' = Append(store, [site_id |-> c.site_id, event_type |-> c.event_type,
                                path |-> c.path, user_id |-> c.user_id,
                                timestamp |-> ParseDate(c.timestamp),
                                job |-> Len(requests) + 1, cycle |-> 0])
    /\ UNCHANGED <<runs, faults, report, log, aggregated, zone>>

\* Validation passes and eventQueue.add is issued: the job is in the queue
\* and the handler awaits the call's completion.
AcceptEnqueue(c) ==
    /\ Len(requests) < MaxSubmits
    /\ ~Invalid(c)
    /\ requests' = Append(requests, NewRequest(c, "added", NoReply))
    /\ jobs' = jobs @@ (Len(requests) + 1 :> NewJob(c))
    /\ wait' = Append(wait, Len(requests) + 1)
    /\ UNCHANGED <<runs, store, faults, report, log, aggregated, zone>>

\* A faulty variant of the catch block: it replies with the validation error.
AcceptEnqueueFailAsRejection(c) ==
    /\ Len(requests) < MaxSubmits
    /\ ~Invalid(c)
    /\ requests' = Append(requests, NewRequest(c, "threw", RejectionReply(c)))
    /\ UNCHANGED <<jobs, wait, runs, store, faults, report, log, aggregated, zone>>

\* Validation passes and eventQueue.add rejects: the catch block replies 500.
AcceptEnqueueFail(c) ==
    /\ Len(requests) < MaxSubmits
    /\ ~Invalid(c)
    /\ requests' = Append(requests, NewRequest(c, "threw", FailureReply))
    /\ UNCHANGED <<jobs, wait, runs, store, faults, report, log, aggregated, zone>>

\* A faulty variant of the reply: the handler waits until the event is stored.
AcceptReplyAfterSave(r) ==
    /\ r \in DOMAIN requests
    /\ requests[r].enq = "added"
    /\ requests[r].res = NoReply
    /\ \E i \in DOMAIN store : store[i].job = r
    /\ requests' = [requests EXCEPT ![r].res = AcceptedReply]
    /\ UNCHANGED <<jobs, wait, runs, store, faults, report, log, aggregated, zone>>

\* The awaited eventQueue.add has completed: reply accepted.
AcceptReply(r) ==
    /\ r \in DOMAIN requests
    /\ requests[r].enq = "added"
    /\ requests[r].res = NoReply
    /\ requests' = [requests EXCEPT ![r].res = AcceptedReply]
    /\ UNCHANGED <<jobs, wait, runs, store, faults, report, log, aggregated, zone>>

---------------------------------------------------------------------------
(* The processor: new Worker('analytics-events', async (job) => ..., opts) *)

\* concurrency: 10 -- the processor invocations one Worker runs at a time.
Concurrency == 10

\* The Worker options carry no maxStalledCount: BullMQ's default applies, a
\* job found stalled more than once is failed.
MaxStalledCount == 1

\* mongoose's cast of a value to the schema type String.
CastString(x) == IF x = Zero THEN "0" ELSE x

\* new Event({site_id, event_type, path, user_id, timestamp: new Date(timestamp)})
EventDoc(data) ==
    [site_id |-> CastString(data.site_id),
     event_type |-> CastString(data.event_type),
     path |-> CastString(data.path),
     user_id |-> CastString(data.user_id),
     timestamp |-> ParseDate(data.timestamp)]

\* The validation event.save() runs against eventSchema: site_id, event_type
\* and timestamp are required (undefined, null and the empty string fail),
\* and an Invalid Date does not cast to Date.
SchemaValid(doc) ==
    /\ doc.site_id \notin {Absent, "", JsonNull}
    /\ doc.event_type \notin {Absent, "", JsonNull}
    /\ doc.timestamp # InvalidDate

\* A faulty variant of the failure path: the lock is released and the job is
\* left where it is, neither waiting nor failed.
AfterFailureDropped(job) == [job EXCEPT !.lock = 0]

\* What the queue does with a job whose processor threw: retry while attempts
\* are left, else move it to the failed set.
AfterFailure(job) ==
    IF job.attemptsMade + 1 < JobAttempts
    THEN [job EXCEPT !.state = "waiting", !.attemptsMade = @ + 1, !.lock = 0]
    ELSE [job EXCEPT !.state = "failed", !.attemptsMade = @ + 1, !.lock = 0,
                     !.failedReason = "error"]

\* A processor invocation: the job it was given, the lease (the job's n-th)
\* it runs under, where it stands, and whether its lock has expired under it.
\* The lock of a job names the lease that holds it (0: none, -1: expired).
NewRun(j) ==
    [job |-> j, cycle |-> jobs[j].leases + 1, pc |-> "process", expired |-> FALSE]

\* A faulty variant of the hand-out: an active job is handed out again.
LeasableIgnoringState(j) ==
    /\ j \in DOMAIN jobs
    /\ jobs[j].state \in {"waiting", "active"}
    /\ jobs[j].state = "waiting" => j = Head(wait)
    /\ Cardinality(runs) < Concurrency

\* A faulty variant of the hand-out: the worker takes a job whenever one
\* waits, however many it is processing.
LeasableUnbounded(j) ==
    /\ j \in DOMAIN jobs
    /\ jobs[j].state = "waiting"
    /\ j = Head(wait)

\* Whether the queue hands job j to the worker: j is the first waiting job.
Leasable(j) ==
    /\ j \in DOMAIN jobs
    /\ jobs[j].state = "waiting"
    /\ j = Head(wait)
    /\ Cardinality(runs) < Concurrency

\* The worker takes a waiting job, locks it and calls the processor.
Lease(j) ==
    /\ Leasable(j)
    /\ jobs' = [jobs EXCEPT ![j].state = "active", ![j].lock = jobs[j].leases + 1,
                            ![j].leases = @ + 1]
    /\ wait' = SelectSeq(wait, LAMBDA k : k # j)
    /\ runs' = runs \cup {NewRun(j)}
    /\ UNCHANGED <<requests, store, faults, report, log, aggregated, zone>>

HoldsLock(r) == jobs[r.job].state = "active" /\ jobs[r.job].lock = r.cycle

\* worker.on('completed', job => console.log(`Job ${job.id} completed`))
OnCompleted(j) == log \cup {[job |-> j, event |-> "completed", message |-> ""]}

\* A faulty variant of the 'failed' handler: it logs nothing.
OnFailedSilent(j, msg) == log

\* worker.on('failed', (job, err) => console.error(`Job ${job.id} failed:`,
\* err.message)): the worker emits 'failed' for a job whose processor threw
\* and for a job its stalled-jobs check failed.
OnFailed(j, msg) == log \cup {[job |-> j, event |-> "failed", message |-> msg]}

\* The record event.save() inserts; job and cycle are history (which job and
\* which lease the write stems from), not fields of the document.
Saved(r) ==
    EventDoc(jobs[r.job].data) @@ [job |-> r.job, cycle |-> r.cycle]

\* A faulty variant of the write: the writes are serialised in the order of
\* submission, a write waits while an earlier job is still to be processed.
SaveOkInOrder(r) ==
    /\ r.pc = "process"
    /\ SchemaValid(EventDoc(jobs[r.job].data))
    /\ \A k \in DOMAIN jobs :
          k < r.job => \/ jobs[k].state \in {"completed", "failed"}
                       \/ \E i \in DOMAIN store : store[i].job = k
    /\ store' = Append(store, Saved(r))
    /\ runs' = (runs \ {r}) \cup {[r EXCEPT !.pc = "saved"]}
    /\ UNCHANGED <<requests, jobs, wait, faults, report, log, aggregated, zone>>

\* A faulty variant of the write: the job id serves as an idempotency key,
\* and a job that has a record in the store is not written again.
SaveOkDeduplicated(r) ==
    /\ r.pc = "process"
    /\ SchemaValid(EventDoc(jobs[r.job].data))
    /\ store' = IF \E i \in DOMAIN store : store[i].job = r.job
                THEN store ELSE Append(store, Saved(r))
    /\ runs' = (runs \ {r}) \cup {[r EXCEPT !.pc = "saved"]}
    /\ UNCHANGED <<requests, jobs, wait, faults, report, log, aggregated, zone>>

\* A faulty variant of the write: the collection is capped at one document,
\* and a write into the full collection drops the oldest document.
SaveOkCapped(r) ==
    /\ r.pc = "process"
    /\ SchemaValid(EventDoc(jobs[r.job].data))
    /\ store' = IF store = <<>> THEN <<Saved(r)>> ELSE Append(Tail(store), Saved(r))
    /\ runs' = (runs \ {r}) \cup {[r EXCEPT !.pc = "saved"]}
    /\ UNCHANGED <<requests, jobs, wait, faults, report, log, aggregated, zone>>

\* A faulty variant of the write: the processor has a retry of its own, and
\* an invocation whose write succeeded may write once more.
SaveOkRetrying(r) ==
    /\ r.pc \in {"process", "saved"}
    /\ SchemaValid(EventDoc(jobs[r.job].data))
    /\ store' = Append(store, Saved(r))
    /\ runs' = (runs \ {r}) \cup {[r EXCEPT !.pc = "saved"]}
    /\ UNCHANGED <<requests, jobs, wait, faults, report, log, aggregated, zone>>

\* await event.save() succeeds.
SaveOk(r) ==
    /\ r.pc = "process"
    /\ SchemaValid(EventDoc(jobs[r.job].data))
    /\ store' = Append(store, Saved(r))
    /\ runs' = (runs \ {r}) \cup {[r EXCEPT !.pc = "saved"]}
    /\ UNCHANGED <<requests, jobs, wait, faults, report, log, aggregated, zone>>

\* A faulty variant of the catch block: the error is logged and swallowed, so
\* the processor returns normally and the job is completed.
FailJobAsComplete(r) ==
    IF HoldsLock(r)
    THEN [jobs EXCEPT ![r.job].state = "completed", ![r.job].lock = 0]
    ELSE jobs

\* The job after its processor threw: the queue fails the job for the
\* holder of its lock, and refuses an invocation that lost the lock.
FailJob(r) ==
    IF HoldsLock(r)
    THEN [jobs EXCEPT ![r.job] = AfterFailure(jobs[r.job])]
    ELSE jobs

\* A faulty variant of the failure path: the failure of the write is passed
\* on to the submitter, whose request is answered with the 500 reply.
SaveFailSurfaced(r) ==
    /\ r.pc = "process"
    /\ jobs' = FailJob(r)
    /\ wait' = IF jobs'[r.job].state = "waiting" /\ jobs[r.job].state # "waiting"
               THEN Append(wait, r.job) ELSE wait
    /\ runs' = runs \ {r}
    /\ log' = IF HoldsLock(r) THEN OnFailed(r.job, "error") ELSE log
    /\ requests' = [requests EXCEPT ![r.job].res = FailureReply]
    /\ UNCHANGED <<store, faults, report, aggregated, zone>>

\* event.save() throws (validation, or the store is unavailable); the catch
\* block logs and rethrows, and the queue is told the job failed; a job to
\* retry joins the waiting jobs at the end.
SaveFail(r) ==
    /\ r.pc = "process"
    /\ jobs' = FailJob(r)
    /\ wait' = IF jobs'[r.job].state = "waiting" /\ jobs[r.job].state # "waiting"
               THEN Append(wait, r.job) ELSE wait
    /\ runs' = runs \ {r}
    /\ log' = IF HoldsLock(r) THEN OnFailed(r.job, "error") ELSE log
    /\ UNCHANGED <<requests, store, faults, report, aggregated, zone>>

\* The job after its processor returned { success: true }.
CompleteJob(r) ==
    IF HoldsLock(r)
    THEN [jobs EXCEPT ![r.job].state = "completed", ![r.job].lock = 0]
    ELSE jobs

\* A faulty variant of the processor: event.save() is not awaited, so the
\* processor can return while the write is still to be done.
AckWithoutAwait(r) ==
    /\ r.pc \in {"process", "saved"}
    /\ jobs' = CompleteJob(r)
    /\ runs' = runs \ {r}
    /\ log' = IF HoldsLock(r) THEN OnCompleted(r.job) ELSE log
    /\ UNCHANGED <<requests, wait, store, faults, report, aggregated, zone>>

\* return { success: true }: the queue is told the job completed.
Ack(r) ==
    /\ r.pc = "saved"
    /\ jobs' = CompleteJob(r)
    /\ runs' = runs \ {r}
    /\ log' = IF HoldsLock(r) THEN OnCompleted(r.job) ELSE log
    /\ UNCHANGED <<requests, wait, store, faults, report, aggregated, zone>>

\* The processor process dies while an invocation runs: the invocation is
\* gone, and the job stays active under a lock nobody renews.
Crash(r) ==
    /\ faults < MaxFaults
    /\ jobs' = [jobs EXCEPT ![r.job].lock = IF HoldsLock(r) THEN -1 ELSE @]
    /\ runs' = runs \ {r}
    /\ faults' = faults + 1
    /\ UNCHANGED <<requests, wait, store, report, log, aggregated, zone>>

\* The worker stalls (it cannot renew the lock in time) and the lock expires
\* while the processor function is still running.
Stall(r) ==
    /\ faults < MaxFaults
    /\ HoldsLock(r)
    /\ jobs' = [jobs EXCEPT ![r.job].lock = -1]
    /\ runs' = (runs \ {r}) \cup {[r EXCEPT !.expired = TRUE]}
    /\ faults' = faults + 1
    /\ UNCHANGED <<requests, wait, store, report, log, aggregated, zone>>

\* A faulty variant of the worker: it runs no stalled-jobs check
\* (skipStalledCheck), so a job whose lock expired is never looked at.
StalledCheckSkipped(j) ==
    /\ FALSE
    /\ UNCHANGED vars

\* The queue's stalled-jobs check finds an active job without a live lock
\* and moves it back to the head of the waiting jobs, or fails it when it
\* stalled too often.
StalledCheck(j) ==
    /\ j \in DOMAIN jobs
    /\ jobs[j].state = "active"
    /\ jobs[j].lock = -1
    /\ jobs' = [jobs EXCEPT ![j] =
                    IF @.stalledCounter + 1 > MaxStalledCount
                    THEN [@ EXCEPT !.state = "failed", !.lock = 0,
                                   !.stalledCounter = @ + 1,
                                   !.failedReason = "stalled"]
                    ELSE [@ EXCEPT !.state = "waiting", !.lock = 0,
                                   !.stalledCounter = @ + 1]]
    /\ wait' = IF jobs'[j].state = "waiting" THEN <<j>> \o wait ELSE wait
    /\ log' = IF jobs'[j].state = "failed" THEN OnFailed(j, "stalled") ELSE log
    /\ UNCHANGED <<requests, runs, store, faults, report, aggregated, zone>>

---------------------------------------------------------------------------
(* The reporting service: GET /stats *)

\* .slice(0, 10)
TopN == 10

\* new Date(date) for the date strings of the model: a date-only string is
\* midnight UTC of that day.
ParseDay(d) ==
    CASE d = "2025-11-15" -> 0
      [] d = "2025-11-16" -> DayMs
      [] d = "2025-11-02" -> -13 * DayMs
      [] OTHER -> InvalidDate

HourMs == 3600000

\* The time zones a server runs in: UTC, one zone without daylight saving
\* time, and one with.
ServerZones == {"UTC", "Asia/Kolkata", "America/New_York"}

\* 2025-11-02T06:00:00Z, when America/New_York goes back from EDT to EST.
FallBack == -13 * DayMs + 6 * HourMs

\* Local time minus UTC, in zone z at instant t.
UtcOffset(z, t) ==
    CASE z = "UTC" -> 0
      [] z = "Asia/Kolkata" -> 19800000
      [] z = "America/New_York" -> IF t < FallBack THEN -4 * HourMs ELSE -5 * HourMs

\* The instant at which the clocks of zone z read the local time `wall`.
FromLocal(z, wall) == wall - UtcOffset(z, wall - UtcOffset(z, wall))

\* endDate.setDate(endDate.getDate() + 1): getDate and setDate work on the
\* local time of the process, so the result is the instant of the same local
\* time of day on the next local calendar day.
NextDay(t) == FromLocal(zone, (t + UtcOffset(zone, t)) + DayMs)

\* A faulty variant of the filter: it selects on the timestamp only.
InWindowAnySite(e, site_id, startDate, endDate) ==
    /\ e.timestamp >= startDate
    /\ e.timestamp < endDate

\* Event.find({site_id, timestamp: {$gte: startDate, $lt: endDate}})
InWindow(e, site_id, startDate, endDate) ==
    /\ e.site_id = site_id
    /\ e.timestamp >= startDate
    /\ e.timestamp < endDate

RECURSIVE Filter(_, _, _, _)
Filter(docs, site_id, startDate, endDate) ==
    IF docs = <<>> THEN <<>>
    ELSE (IF InWindow(Head(docs), site_id, startDate, endDate)
          THEN <<Head(docs)>> ELSE <<>>)
         \o Filter(Tail(docs), site_id, startDate, endDate)

\* JavaScript's truthiness of a stored string field.
Truthy(x) == x \notin {Absent, ""}

\* A faulty variant of the user count: the distinct users of the whole
\* collection, not of the events found.
UniqueUsersOfCollection(events) ==
    Cardinality({store[i].user_id : i \in {k \in DOMAIN store : Truthy(store[k].user_id)}})

\* new Set(events.map(e => e.user_id).filter(Boolean)).size
UniqueUsers(events) ==
    Cardinality({events[i].user_id : i \in {k \in DOMAIN events : Truthy(events[k].user_id)}})

\* pathCounts[event.path]: how many of the events carry the path.
PathCount(events, path) == Cardinality({i \in DOMAIN events : events[i].path = path})

\* The keys of pathCounts in the order the forEach creates them.
RECURSIVE CreatedKeys(_, _)
CreatedKeys(events, seen) ==
    IF events = <<>> THEN <<>>
    ELSE LET p == Head(events).path IN
         IF Truthy(p) /\ p \notin seen
         THEN <<p>> \o CreatedKeys(Tail(events), seen \cup {p})
         ELSE CreatedKeys(Tail(events), seen)

\* The number a property key denotes when it is a canonical array index
\* (-1: the key is an ordinary string).
IndexOfKey(k) ==
    CASE k = "0" -> 0
      [] k = "1" -> 1
      [] k = "2" -> 2
      [] OTHER -> -1

\* The integer keys of a key sequence, ascending.
RECURSIVE IndexKeys(_, _)
IndexKeys(keys, from) ==
    IF from > 2 THEN <<>>
    ELSE (IF \E i \in DOMAIN keys : IndexOfKey(keys[i]) = from
          THEN <<CHOOSE k \in {keys[i] : i \in DOMAIN keys} : IndexOfKey(k) = from>>
          ELSE <<>>) \o IndexKeys(keys, from + 1)

RECURSIVE StringKeys(_)
StringKeys(keys) ==
    IF keys = <<>> THEN <<>>
    ELSE (IF IndexOfKey(Head(keys)) = -1 THEN <<Head(keys)>> ELSE <<>>)
         \o StringKeys(Tail(keys))

\* Object.entries(pathCounts): integer keys first, ascending, then the
\* string keys in creation order.
Entries(events) ==
    LET created == CreatedKeys(events, {})
        keys == IndexKeys(created, 0) \o StringKeys(created)
    IN [i \in DOMAIN keys |-> [path |-> keys[i], views |-> PathCount(events, keys[i])]]

\* Insert x into a sequence sorted by views descending, after its equals.
RECURSIVE InsertByViews(_, _)
InsertByViews(sorted, x) ==
    IF sorted = <<>> THEN <<x>>
    ELSE IF Head(sorted).views >= x.views
         THEN <<Head(sorted)>> \o InsertByViews(Tail(sorted), x)
         ELSE <<x>> \o sorted

\* .sort((a, b) => b.views - a.views): a stable sort.
RECURSIVE SortByViews(_)
SortByViews(entries) ==
    IF entries = <<>> THEN <<>>
    ELSE InsertByViews(SortByViews(SubSeq(entries, 1, Len(entries) - 1)),
                       entries[Len(entries)])

\* A faulty variant of the truncation: it keeps one entry more.
SliceInclusive(seq, n) == SubSeq(seq, 1, IF Len(seq) < n + 1 THEN Len(seq) ELSE n + 1)

\* .slice(0, n), and { $limit: n }
Slice(seq, n) == SubSeq(seq, 1, IF Len(seq) < n THEN Len(seq) ELSE n)

NoReport == [code |-> 0]

\* res.status(400).json({status: 'error', message: 'Missing required parameters: ...'})
MissingParams == [code |-> 400]

\* The catch block: res.status(500).json({status: 'error', message: 'Failed to fetch stats'})
QueryFailed == [code |-> 500]

\* The body of GET /stats for a parseable date.
ScanStats(site_id, date) ==
    LET startDate == ParseDay(date)
        events == Filter(store, site_id, startDate, NextDay(startDate))
    IN [code |-> 200, site_id |-> site_id, date |-> date,
        total_views |-> Len(events),
        unique_users |-> UniqueUsers(events),
        top_paths |-> Slice(SortByViews(Entries(events)), TopN)]

\* GET /stats without the check of the parameters.
StatsReplyUnchecked(site_id, date) ==
    IF ParseDay(date) = InvalidDate THEN QueryFailed
    ELSE ScanStats(site_id, date)

\* GET /stats?site_id=..&date=..
StatsReply(site_id, date) ==
    IF Falsy(site_id) \/ Falsy(date) THEN MissingParams
    ELSE IF ParseDay(date) = InvalidDate THEN QueryFailed
    ELSE ScanStats(site_id, date)

\* The query parameters report requests carry in this model.
QuerySites == {"site-abc-123", Absent}
QueryDates == {"2025-11-15"}

GetStats(site_id, date) ==
    /\ report' = StatsReply(site_id, date)
    /\ UNCHANGED <<requests, jobs, wait, runs, store, faults, log, aggregated, zone>>

\* GET /stats whose Event.find rejects (the store is unreachable): the catch
\* block replies.  The query is only reached past the check of the parameters.
GetStatsFail(site_id, date) ==
    /\ ~(Falsy(site_id) \/ Falsy(date))
    /\ report' = QueryFailed
    /\ UNCHANGED <<requests, jobs, wait, runs, store, faults, log, aggregated, zone>>

---------------------------------------------------------------------------
(* The reporting service: GET /stats/aggregated *)

\* The _id of the $group of documents that lack the grouped field.
Null == "<null>"

\* The value '$user_id' or '$path' takes in a document: null when the field
\* is not stored, else the stored string, the empty one included.
GroupKey(x) == IF x = Absent THEN Null ELSE x

\* { $group: { _id: '$user_id' } }, { $count: 'count' }
GroupedUsers(events) ==
    Cardinality({GroupKey(events[i].user_id) : i \in DOMAIN events})

\* { $group: { _id: '$path', views: { $sum: 1 } } } and the $project that
\* renames _id to path: the groups, which the store emits in no given order.
PathGroups(events) ==
    {[path |-> k,
      views |-> Cardinality({i \in DOMAIN events : GroupKey(events[i].path) = k})] :
        k \in {GroupKey(events[i].path) : i \in DOMAIN events}}

\* { $sort: { views: -1 } } of groups that arrive in no given order: every
\* arrangement of the groups by views descending, groups of equal views in
\* any order.
RECURSIVE SortedOrders(_)
SortedOrders(groups) ==
    IF groups = {} THEN {<<>>}
    ELSE UNION {{<<g>> \o rest : rest \in SortedOrders(groups \ {g})} :
                  g \in {h \in groups : \A o \in groups : h.views >= o.views}}

\* The replies GET /stats/aggregated can give for a parseable date.
AggregatedStats(site_id, date) ==
    LET startDate == ParseDay(date)
        events == Filter(store, site_id, startDate, NextDay(startDate))
    IN {[code |-> 200, site_id |-> site_id, date |-> date,
         total_views |-> Len(events),
         unique_users |-> GroupedUsers(events),
         top_paths |-> Slice(order, TopN)] : order \in SortedOrders(PathGroups(events))}

\* GET /stats/aggregated?site_id=..&date=..  The pipeline is handed to the
\* driver as it is; what the driver does with an Invalid Date in it (send a
\* zero instant, or throw) is left open.
AggregatedReplies(site_id, date) ==
    IF Falsy(site_id) \/ Falsy(date) THEN {MissingParams}
    ELSE IF ParseDay(date) = InvalidDate
         THEN {QueryFailed,
               [code |-> 200, site_id |-> site_id, date |-> date,
                total_views |-> 0, unique_users |-> 0, top_paths |-> <<>>]}
    ELSE AggregatedStats(site_id, date)

GetAggregated(site_id, date) ==
    /\ aggregated' \in AggregatedReplies(site_id, date)
    /\ UNCHANGED <<requests, jobs, wait, runs, store, faults, report, log, zone>>

\* GET /stats/aggregated whose Event.aggregate rejects: the catch block
\* replies.
GetAggregatedFail(site_id, date) ==
    /\ ~(Falsy(site_id) \/ Falsy(date))
    /\ aggregated' = QueryFailed
    /\ UNCHANGED <<requests, jobs, wait, runs, store, faults, report, log, zone>>

---------------------------------------------------------------------------
(* The system *)

Init ==
    /\ requests = <<>>
    /\ jobs = <<>>
    /\ wait = <<>>
    /\ runs = {}
    /\ store = <<>>
    /\ faults = 0
    /\ report = NoReport
    /\ log = {}
    /\ aggregated = NoReport
    /\ zone = "UTC"

Next ==
    \/ \E c \in CoreCandidates : AcceptReject(c)
    \/ \E c \in CoreCandidates : AcceptEnqueue(c)
    \/ \E c \in CoreCandidates : AcceptEnqueueFail(c)
    \/ \E r \in 1..MaxSubmits : AcceptReply(r)
    \/ \E j \in 1..MaxSubmits : Lease(j)
    \/ \E r \in runs : SaveOk(r)
    \/ \E r \in runs : SaveFail(r)
    \/ \E r \in runs : Ack(r)
    \/ \E r \in runs : Crash(r)
    \/ \E r \in runs : Stall(r)
    \/ \E j \in 1..MaxSubmits : StalledCheck(j)

Spec == Init /\ [][Next]_vars

\* The worker keeps fetching jobs, a processor invocation that is running
\* runs on, the stalled-jobs check recurs, and an awaited add completes;
\* crashes and stalls are never owed.
FairSpec ==
    /\ Spec
    /\ WF_vars(\E r \in 1..MaxSubmits : AcceptReply(r))
    /\ WF_vars(\E j \in 1..MaxSubmits : Lease(j))
    /\ WF_vars(\E r \in runs : SaveOk(r) \/ SaveFail(r) \/ Ack(r))
    /\ WF_vars(\E j \in 1..MaxSubmits : StalledCheck(j))

\* The ingestion service under every request body of the model, with a
\* worker that neither crashes nor stalls.
NextA ==
    \/ \E c \in Candidates : AcceptReject(c)
    \/ \E c \in Candidates : AcceptEnqueue(c)
    \/ \E c \in Candidates : AcceptEnqueueFail(c)
    \/ \E r \in 1..MaxSubmits : AcceptReply(r)
    \/ \E j \in 1..MaxSubmits : Lease(j)
    \/ \E r \in runs : SaveOk(r)
    \/ \E r \in runs : SaveFail(r)
    \/ \E r \in runs : Ack(r)

SpecA == Init /\ [][NextA]_vars

\* The pipeline with worker crashes and their recovery, together with
\* report requests.
NextR ==
    \/ \E c \in CoreCandidates : AcceptReject(c)
    \/ \E c \in CoreCandidates : AcceptEnqueue(c)
    \/ \E c \in CoreCandidates : AcceptEnqueueFail(c)
    \/ \E r \in 1..MaxSubmits : AcceptReply(r)
    \/ \E j \in 1..MaxSubmits : Lease(j)
    \/ \E r \in runs : SaveOk(r)
    \/ \E r \in runs : SaveFail(r)
    \/ \E r \in runs : Ack(r)
    \/ \E r \in runs : Crash(r)
    \/ \E j \in 1..MaxSubmits : StalledCheck(j)
    \/ \E s \in QuerySites, d \in QueryDates : GetStats(s, d)

SpecR == Init /\ [][NextR]_vars

\* A burst: PoolJobs events were accepted while the worker was down, and
\* their jobs wait in the order of their submission.
BurstCandidate ==
    Cand("site-abc-123", "page_view", "/pricing", "user-1", "2025-11-15T10:00:00Z")

InitP ==
    /\ requests = [i \in 1..PoolJobs |-> NewRequest(BurstCandidate, "added", AcceptedReply)]
    /\ jobs = [i \in 1..PoolJobs |-> NewJob(BurstCandidate)]
    /\ wait = [i \in 1..PoolJobs |-> i]
    /\ runs = {}
    /\ store = <<>>
    /\ faults = 0
    /\ report = NoReport
    /\ log = {}
    /\ aggregated = NoReport
    /\ zone = "UTC"

\* The worker meets the burst while the store is unavailable: it hands out
\* jobs as its concurrency allows, and every save throws.
NextP ==
    \/ \E j \in DOMAIN jobs : Lease(j)
    \/ \E r \in runs : SaveFail(r)

SpecP == InitP /\ [][NextP]_vars

\* The events a store holds when the reports are asked for: page views of
\* two sites, on the day, at its last millisecond and at the first instant
\* of the next day, with and without path and user_id, and with a path that
\* reads as a number.
StoredCandidates ==
    { Cand("site-abc-123", "page_view", "/pricing", "user-1", "2025-11-15T10:00:00Z"),
      Cand("site-abc-123", "page_view", "/", "user-2", "2025-11-15T23:59:59.999Z"),
      Cand("site-abc-123", "page_view", Absent, Absent, "2025-11-15T10:05:00Z"),
      Cand("site-abc-123", "page_view", "", "", "2025-11-15T10:05:00Z"),
      Cand("site-xyz-789", "page_view", "/pricing", "user-1", "2025-11-15T10:00:00Z"),
      Cand("site-abc-123", "page_view", "/pricing", "user-1", "2025-11-16T00:00:00.000Z"),
      Cand("site-abc-123", "page_view", "1", "user-2", "2025-11-15T10:05:00Z") }

\* A busy day of one site: twelve paths, the k-th of them viewed BusyViews[k]
\* times, by three users and by visitors without user_id.
BusyPaths ==
    <<"/", "/pricing", "/blog/post-1", "/blog/post-2", "/about", "/docs",
      "/docs/api", "/login", "/signup", "/contact", "/careers", "/terms">>

BusyViews == <<2, 1, 2, 3, 4, 5, 6, 7, 8, 9, 10, 11>>

BusyUsers == <<"user-1", "user-2", Absent, "user-3">>

RECURSIVE BusyDay(_, _)
BusyDay(k, n) ==
    IF k > Len(BusyPaths) THEN <<>>
    ELSE IF n > BusyViews[k] THEN BusyDay(k + 1, 1)
    ELSE <<Cand("site-abc-123", "page_view", BusyPaths[k],
                BusyUsers[((k + n) % Len(BusyUsers)) + 1], "2025-11-15T10:00:00Z")>>
         \o BusyDay(k, n + 1)

\* The submissions whose events are in the store: every sequence of up to
\* MaxEvents stored candidates, and the busy day.
StoreContents ==
    UNION {[1..n -> StoredCandidates] : n \in 0..MaxEvents} \cup {BusyDay(1, 1)}

\* The system after the candidates cs were accepted and processed one after
\* the other: replied, completed, logged and stored, one record each, with
\* the reporting service running in time zone z.
AfterProcessing(cs, z) ==
    /\ requests = [i \in DOMAIN cs |-> NewRequest(cs[i], "added", AcceptedReply)]
    /\ jobs = [i \in DOMAIN cs |->
                  [NewJob(cs[i]) EXCEPT !.state = "completed", !.leases = 1]]
    /\ wait = <<>>
    /\ runs = {}
    /\ store = [i \in DOMAIN cs |-> EventDoc(JobData(cs[i])) @@ [job |-> i, cycle |-> 1]]
    /\ faults = 0
    /\ report = NoReport
    /\ log = {[job |-> i, event |-> "completed", message |-> ""] : i \in DOMAIN cs}
    /\ aggregated = NoReport
    /\ zone = z

InitQ == \E cs \in StoreContents : AfterProcessing(cs, "UTC")

\* The days reports are asked for: two days, no date, an empty one and one
\* that does not parse.
StatsDates == {"2025-11-15", "2025-11-16", Absent, "", "not-a-date"}

\* The sites reports are asked for, the empty one included.
StatsSites == QuerySites \cup {""}

\* The reporting service over a store at rest: reports of both strategies.
NextQ ==
    \/ \E s \in StatsSites, d \in StatsDates : GetStats(s, d)
    \/ \E s \in StatsSites, d \in StatsDates : GetAggregated(s, d)
    \/ \E s \in StatsSites, d \in StatsDates : GetStatsFail(s, d)
    \/ \E s \in StatsSites, d \in StatsDates : GetAggregatedFail(s, d)

SpecQ == InitQ /\ [][NextQ]_vars

\* The events at the edges of two days: the first instant and the last
\* millisecond of the day, and the first instant of the day after.
BoundaryCandidates ==
    { Cand("site-abc-123", "page_view", "/pricing", "user-1", "2025-11-02T00:00:00.000Z"),
      Cand("site-abc-123", "page_view", "/pricing", "user-1", "2025-11-02T23:59:59.999Z"),
      Cand("site-abc-123", "page_view", "/pricing", "user-1", "2025-11-03T00:00:00.000Z"),
      Cand("site-abc-123", "page_view", "/pricing", "user-1", "2025-11-15T00:00:00.000Z"),
      Cand("site-abc-123", "page_view", "/pricing", "user-1", "2025-11-15T23:59:59.999Z"),
      Cand("site-abc-123", "page_view", "/pricing", "user-1", "2025-11-16T00:00:00.000Z") }

ZoneDates == {"2025-11-02", "2025-11-15"}

\* The reporting service in each of the time zones, over a store at rest
\* that holds events at the edges of the days asked for.
InitZ ==
    \E z \in ServerZones, cs \in UNION {[1..n -> BoundaryCandidates] : n \in 0..MaxEvents} :
        AfterProcessing(cs, z)

NextZ ==
    \/ \E s \in QuerySites, d \in ZoneDates : GetStats(s, d)
    \/ \E s \in QuerySites, d \in ZoneDates : GetAggregated(s, d)

SpecZ == InitZ /\ [][NextZ]_vars

\* The four events of the README's "Send Multiple Events for Testing".
ExampleEvents ==
    << Cand("site-abc-123", "page_view", "/pricing", "user-1", "2025-11-15T10:00:00Z"),
       Cand("site-abc-123", "page_view", "/blog/post-1", "user-2", "2025-11-15T10:05:00Z"),
       Cand("site-abc-123", "page_view", "/", "user-3", "2025-11-15T10:10:00Z"),
       Cand("site-abc-123", "page_view", "/pricing", "user-1", "2025-11-15T10:15:00Z") >>

\* The four events have been accepted, in their order, and their jobs wait.
InitE ==
    /\ requests = [i \in DOMAIN ExampleEvents |->
                      NewRequest(ExampleEvents[i], "added", AcceptedReply)]
    /\ jobs = [i \in DOMAIN ExampleEvents |-> NewJob(ExampleEvents[i])]
    /\ wait = [i \in DOMAIN ExampleEvents |-> i]
    /\ runs = {}
    /\ store = <<>>
    /\ faults = 0
    /\ report = NoReport
    /\ log = {}
    /\ aggregated = NoReport
    /\ zone = "UTC"

\* The worker processes the four jobs, and the report of the example is
\* asked for.
NextE ==
    \/ \E j \in DOMAIN jobs : Lease(j)
    \/ \E r \in runs : SaveOk(r)
    \/ \E r \in runs : SaveFail(r)
    \/ \E r \in runs : Ack(r)
    \/ GetStats("site-abc-123", "2025-11-15")

SpecE == InitE /\ [][NextE]_vars

\* Bound: the jobs in the queue when the worker starts.
MaxPayloads == 2

\* Job payloads as any producer of the queue 'analytics-events' can leave
\* them: a complete one, and ones in which a required field is missing,
\* null, empty, of another type or unparseable.
Payloads ==
    { Cand("site-abc-123", "page_view", "/pricing", "user-1", "2025-11-15T10:00:00Z"),
      Cand(Absent, "page_view", "/pricing", "user-1", "2025-11-15T10:00:00Z"),
      Cand("", "page_view", "/pricing", "user-1", "2025-11-15T10:00:00Z"),
      Cand(JsonNull, "page_view", "/pricing", "user-1", "2025-11-15T10:00:00Z"),
      Cand("site-abc-123", Absent, "/pricing", "user-1", "2025-11-15T10:00:00Z"),
      Cand("site-abc-123", Zero, "/pricing", "user-1", "2025-11-15T10:00:00Z"),
      Cand("site-abc-123", "page_view", "/pricing", "user-1", Absent),
      Cand("site-abc-123", "page_view", "/pricing", "user-1", ""),
      Cand("site-abc-123", "page_view", "/pricing", "user-1", "not-a-date"),
      Cand("site-abc-123", "page_view", "/pricing", "user-1", JsonNull) }

\* The worker starts on a queue that holds jobs with such payloads.
InitW ==
    \E ps \in UNION {[1..n -> Payloads] : n \in 1..MaxPayloads} :
        /\ requests = <<>>
        /\ jobs = [i \in DOMAIN ps |-> NewJob(ps[i])]
        /\ wait = [i \in DOMAIN ps |-> i]
        /\ runs = {}
        /\ store = <<>>
        /\ faults = 0
        /\ report = NoReport
        /\ log = {}
        /\ aggregated = NoReport
        /\ zone = "UTC"

NextW ==
    \/ \E j \in DOMAIN jobs : Lease(j)
    \/ \E r \in runs : SaveOk(r)
    \/ \E r \in runs : SaveFail(r)
    \/ \E r \in runs : Ack(r)

SpecW == InitW /\ [][NextW]_vars

---------------------------------------------------------------------------
(* Properties *)

\* The store records written from job j.
EventsOf(j) == {i \in DOMAIN store : store[i].job = j}

\* A required field that is missing or empty.
MissingOrEmpty(x) == x \in {Absent, ""}

\* C1: for a valid submission the acceptance reply waits for nothing but the
\* completion of the enqueue: while the reply is outstanding it can be sent
\* whatever the state of the job and of the store, and a reply 'accepted'
\* was given exactly to a request that passed validation and whose job was
\* added to the queue.
C1_AcceptDoesNotWait ==
    \A r \in DOMAIN requests :
        /\ (requests[r].enq = "added" /\ requests[r].res = NoReply)
              => ENABLED AcceptReply(r)
        /\ requests[r].res.status = "accepted"
              => /\ requests[r].enq = "added"
                 /\ r \in DOMAIN jobs
                 /\ ~MissingOrEmpty(requests[r].cand.site_id)
                 /\ ~MissingOrEmpty(requests[r].cand.event_type)
                 /\ ~MissingOrEmpty(requests[r].cand.timestamp)
        /\ requests[r].enq = "added"
              => requests[r].res \in {NoReply, AcceptedReply}

\* C1 witness: 'accepted' has been replied while the job is still being
\* processed and nothing of it is in the store.
C1_Witness ==
    \E r \in DOMAIN requests :
        /\ requests[r].res.status = "accepted"
        /\ jobs[r].state = "active"
        /\ EventsOf(r) = {}

\* C2: an accept of a candidate whose site_id, event_type or timestamp is
\* missing or empty replies with the rejection in the same step and leaves
\* the queue's jobs as they were.
C2_RejectedNotEnqueued ==
    [][(/\ Len(requests') = Len(requests) + 1
        /\ LET c == requests'[Len(requests')].cand IN
              \/ MissingOrEmpty(c.site_id)
              \/ MissingOrEmpty(c.event_type)
              \/ MissingOrEmpty(c.timestamp))
       => /\ requests'[Len(requests')].res.code = 400
          /\ jobs' = jobs]_vars

\* C2 witness: with a job in the queue, a later request with an empty
\* site_id was rejected and has no job.
C2_Witness ==
    \E r \in DOMAIN requests :
        /\ requests[r].cand.site_id = ""
        /\ requests[r].res.code = 400
        /\ r \notin DOMAIN jobs
        /\ \E q \in DOMAIN jobs : q < r

\* C3 (the claim as stated): a candidate with site_id and event_type present
\* and a non-empty timestamp that does not parse to an instant is rejected
\* with a validation error and has no job in the queue.
C3_UnparseableTimestampRejected ==
    \A r \in DOMAIN requests :
        LET c == requests[r].cand IN
        (/\ ~Falsy(c.site_id)
         /\ ~Falsy(c.event_type)
         /\ ~Falsy(c.timestamp)
         /\ ParseDate(c.timestamp) = InvalidDate)
        => requests[r].res.code = 400 /\ r \notin DOMAIN jobs

\* The required fields of a candidate that are missing or invalid.
C4_MissingFields(c) ==
    {f \in {"site_id", "event_type"} : Falsy(c[f])}
    \cup (IF Falsy(c.timestamp) \/ ParseDate(c.timestamp) = InvalidDate
          THEN {"timestamp"} ELSE {})

\* C4 (the claim as stated): the fields a rejection names are exactly the
\* required fields that are missing or invalid in the candidate.
C4_NamesExactlyMissing ==
    \A r \in DOMAIN requests :
        requests[r].res.code = 400
            => requests[r].res.fields = C4_MissingFields(requests[r].cand)

\* C4 (amended): every rejection names all three required fields, whichever
\* of them the candidate lacks; a candidate is rejected only when it lacks
\* at least one of them.
C4_NamesAllRequired ==
    \A r \in DOMAIN requests :
        requests[r].res.code = 400
            => /\ requests[r].res.fields = {"site_id", "event_type", "timestamp"}
               /\ C4_MissingFields(requests[r].cand) # {}

\* C4 witness: a rejected candidate that lacks event_type only.
C4_Witness ==
    \E r \in DOMAIN requests :
        /\ requests[r].res.code = 400
        /\ C4_MissingFields(requests[r].cand) = {"event_type"}

\* C5: when the queue submission of a valid candidate fails, the reply is
\* the 500 failure, which is neither 'accepted' nor the validation
\* rejection, and the submission is not tried again: the request never has
\* a job.
C5_SubmissionFailureIsTransient ==
    \A r \in DOMAIN requests :
        requests[r].enq = "threw"
            => /\ requests[r].res.code = 500
               /\ requests[r].res.status # "accepted"
               /\ \A c \in Candidates : requests[r].res # RejectionReply(c)
               /\ r \notin DOMAIN jobs

\* C5 witness: a valid candidate whose submission failed, after an earlier
\* one was enqueued.
C5_Witness ==
    \E r \in DOMAIN requests :
        /\ requests[r].enq = "threw"
        /\ requests[r].res.code = 500
        /\ \E q \in DOMAIN jobs : q < r

\* The store records that stem from requests accept did not reject.
C6_FromAccepted(site_id) ==
    {i \in DOMAIN store :
        /\ requests[store[i].job].res.code # 400
        /\ store[i].site_id = site_id}

\* C6: no store record stems from a request that accept rejected, and a
\* report counts no more views, users or path views than the records of
\* not-rejected requests account for.
C6_RejectedNeverStored ==
    /\ \A i \in DOMAIN store : requests[store[i].job].res.code # 400
    /\ report.code = 200 =>
        /\ report.total_views <= Cardinality(C6_FromAccepted(report.site_id))
        /\ report.unique_users <= Cardinality(C6_FromAccepted(report.site_id))
        /\ \A k \in DOMAIN report.top_paths :
              report.top_paths[k].views <=
                Cardinality({i \in C6_FromAccepted(report.site_id) :
                               store[i].path = report.top_paths[k].path})

\* C6 witness: the first request lacked event_type and was rejected, a later
\* one was processed, and a report that counts a view has been computed.
C6_Witness ==
    /\ Len(requests) >= 2
    /\ requests[1].cand.event_type = Absent
    /\ requests[1].res.code = 400
    /\ report.code = 200
    /\ report.total_views >= 1

\* The processor invocations running job j.
RunsOf(j) == {r \in runs : r.job = j}

\* C7 (the claim as stated): each job is being processed by at most one
\* worker, also when a lease expires under a worker that is still running.
C7_OneWorkerPerJob ==
    \A j \in DOMAIN jobs : Cardinality(RunsOf(j)) <= 1

\* C7 (amended): each job is being processed by at most one worker whose
\* lease has not expired, and that worker holds the job's lock.
C7_OneLiveLeasePerJob ==
    \A j \in DOMAIN jobs :
        /\ Cardinality({r \in RunsOf(j) : ~r.expired}) <= 1
        /\ \A r \in RunsOf(j) : ~r.expired => HoldsLock(r)

\* C7 witness: a stalled worker and the job's next lessee run the same job.
C7_Witness ==
    \E r1 \in runs, r2 \in runs :
        /\ r1.job = r2.job
        /\ r1.expired
        /\ ~r2.expired
        /\ r1.pc = "process"
        /\ r2.pc = "process"

\* C8: a job becomes completed only in a lease in which its store write
\* succeeded; a lease whose processing threw never completes the job.
C8_NoAckWithoutWrite ==
    [][\A j \in DOMAIN jobs :
          (jobs[j].state # "completed" /\ jobs'[j].state = "completed")
          => \E i \in DOMAIN store :
                store[i].job = j /\ store[i].cycle = jobs[j].leases]_vars

\* C8 witness: a job with a storable payload whose store write threw: it is
\* failed and nothing of it is in the store.
C8_Witness ==
    \E j \in DOMAIN jobs :
        /\ SchemaValid(EventDoc(jobs[j].data))
        /\ jobs[j].state = "failed"
        /\ jobs[j].failedReason = "error"
        /\ EventsOf(j) = {}

\* C9 (the claim as stated): a failed attempt below the third does not end
\* the job's life: a job with a storable payload is failed for good only
\* after three attempts.
C9_RetryAfterFailure ==
    \A j \in DOMAIN jobs :
        (/\ SchemaValid(EventDoc(jobs[j].data))
         /\ jobs[j].state = "failed"
         /\ jobs[j].failedReason = "error")
        => jobs[j].attemptsMade >= 3

\* Every enqueued job is accounted for: waiting, leased, completed with a
\* record in the store, or failed after its attempts or its stalls ran out.
C10_Accounted ==
    \A r \in DOMAIN requests :
        requests[r].enq = "added"
            => /\ r \in DOMAIN jobs
               /\ jobs[r].state \in {"waiting", "active", "completed", "failed"}
               /\ jobs[r].state = "completed" => EventsOf(r) # {}
               /\ jobs[r].state = "failed"
                    => \/ jobs[r].attemptsMade >= JobAttempts
                       \/ jobs[r].stalledCounter > MaxStalledCount

\* Every job in the queue has ended: completed or failed.
C10_Settled ==
    \A j \in DOMAIN jobs : jobs[j].state \in {"completed", "failed"}

\* C10: an accepted job is never dropped silently, and under a fair worker
\* every accepted job ends completed or failed.  Submissions are finitely
\* many and a completed or failed job stays so, hence "every job eventually
\* ends" is "eventually every job has ended, for good".
C10_AtLeastOnce ==
    /\ []C10_Accounted
    /\ <>[]C10_Settled

\* C10 witness: a job that lost its first worker to a crash was leased again
\* and completed.
C10_Witness ==
    \E j \in DOMAIN jobs :
        /\ jobs[j].state = "completed"
        /\ jobs[j].stalledCounter = 1
        /\ EventsOf(j) # {}

\* Job j has used up what the queue grants it: its attempts, or its stalls.
C11_CeilingReached(j) ==
    \/ jobs[j].attemptsMade >= JobAttempts
    \/ jobs[j].stalledCounter > MaxStalledCount

\* Job j is in the failed set, whose failure the worker has logged, and it
\* got there only by reaching the ceiling.
C11_DeadIsRecorded ==
    \A j \in DOMAIN jobs :
        jobs[j].state = "failed"
            => /\ C11_CeilingReached(j)
               /\ jobs[j].failedReason # ""
               /\ \E e \in log : e.job = j /\ e.event = "failed"
               /\ \A k \in DOMAIN wait : wait[k] # j

\* A failed job stays as it is: it is not leased, retried or removed.
C11_DeadStaysDead ==
    \A j \in DOMAIN jobs :
        jobs[j].state = "failed"
            => /\ jobs'[j] = jobs[j]
               /\ \A r \in runs' : r.job = j => \E q \in runs : q.job = j /\ q.cycle = r.cycle

\* This step writes a store record that stems from job j.
C11_Persists(j) ==
    /\ Len(store') = Len(store) + 1
    /\ store'[Len(store')].job = j

\* C11 (the claim as stated): a job is failed only at the ceiling, its
\* failure is logged, and once failed it is never leased and never persisted
\* again.
C11_DeadNeverPersisted ==
    /\ []C11_DeadIsRecorded
    /\ [][C11_DeadStaysDead
          /\ \A j \in DOMAIN jobs : jobs[j].state = "failed" => ~C11_Persists(j)]_vars

\* C11 (amended): a job is failed only at the ceiling (attempts used up, or
\* stalled too often), its failure is logged and the job kept in the failed
\* set, and once failed it is never leased again; a store write for it after
\* that comes only from a worker whose lease had expired while it was
\* running.
C11_DeadNeverLeased ==
    /\ []C11_DeadIsRecorded
    /\ [][C11_DeadStaysDead
          /\ \A j \in DOMAIN jobs :
                (jobs[j].state = "failed" /\ C11_Persists(j))
                => \E r \in runs : /\ r.job = j
                                   /\ r.cycle = store'[Len(store')].cycle
                                   /\ r.expired]_vars

\* C11 witness: a job failed in its second lease and logged as failed, while
\* the worker of its first lease, that lease long expired, has written its
\* record.
C11_Witness ==
    \E j \in DOMAIN jobs :
        /\ jobs[j].state = "failed"
        /\ jobs[j].leases = 2
        /\ \E e \in log : e.job = j /\ e.event = "failed"
        /\ \E r \in runs : r.job = j /\ r.cycle = 1 /\ r.expired /\ r.pc = "saved"
        /\ \E i \in DOMAIN store : store[i].job = j /\ store[i].cycle = 1

\* Job j is leased and its lock has expired: its worker crashed or stalled.
C12_LeaseExpired(j) == jobs[j].state = "active" /\ jobs[j].lock = -1

C12_NoneLeased == \A j \in DOMAIN jobs : jobs[j].state # "active"

C13_DuplicatesNotSuppressed ==
    /\ [](\A r \in runs :
             (r.pc = "process" /\ SchemaValid(EventDoc(jobs[r.job].data)))
             => ENABLED SaveOk(r))
    /\ [][\A r \in runs :
             (r.pc = "process" /\ [r EXCEPT !.pc = "saved"] \in runs')
             => /\ Len(store') = Len(store) + 1
                /\ store'[Len(store')].job = r.job
                /\ store'[Len(store')].cycle = r.cycle
                /\ \A i \in DOMAIN store : store'[i] = store[i]]_vars

\* C13 witness: one accepted submission, two records: its worker was lost
\* after the write of the first lease, and the second lease wrote again and
\* completed the job.
C13_Witness ==
    \E j \in DOMAIN jobs :
        /\ requests[j].res = AcceptedReply
        /\ jobs[j].state = "completed"
        /\ jobs[j].stalledCounter = 1
        /\ \E i1 \in DOMAIN store, i2 \in DOMAIN store :
              /\ i1 < i2
              /\ store[i1].job = j /\ store[i1].cycle = 1
              /\ store[i2].job = j /\ store[i2].cycle = 2
              /\ [f \in {"site_id", "event_type", "path", "user_id", "timestamp"} |-> store[i1][f]]
                   = [f \in {"site_id", "event_type", "path", "user_id", "timestamp"} |-> store[i2][f]]

\* C14: the workers do not order their writes.  While earlier jobs are
\* being processed the next waiting job is handed out, and of the processor
\* invocations that run side by side with storable payloads any one can
\* write next, so two events accepted as A, B are stored as A, B or as B, A.
C14_NoOrderAcrossWorkers ==
    /\ (wait # <<>> /\ Cardinality(runs) < Concurrency) => ENABLED Lease(Head(wait))
    /\ \A r \in runs :
          (r.pc = "process" /\ SchemaValid(EventDoc(jobs[r.job].data)))
          => ENABLED SaveOk(r)

\* C14 witness: with no crash and no stall, of two events accepted as A, B
\* the store holds B's record before A's.
C14_Witness ==
    /\ faults = 0
    /\ Len(requests) = 2
    /\ requests[1].res = AcceptedReply
    /\ requests[2].res = AcceptedReply
    /\ Len(store) = 2
    /\ store[1].job = 2
    /\ store[2].job = 1

\* C15: the worker processes at most 10 jobs at a time: while 10 processor
\* invocations are running no job is handed out, however many wait, and an
\* active job is a job of one of the invocations.
C15_PoolIsBounded ==
    /\ Cardinality(runs) <= 10
    /\ Cardinality({j \in DOMAIN jobs : jobs[j].state = "active"}) <= 10
    /\ Cardinality(runs) = 10 => \A j \in DOMAIN jobs : ~ENABLED Lease(j)

\* C15 witness: 10 jobs are being processed and a job is waiting.
C15_Witness ==
    /\ Cardinality(runs) = 10
    /\ wait # <<>>
    /\ jobs[Head(wait)].state = "waiting"

\* C16 (the claim as stated): over the same store, the reply of GET /stats
\* and the reply of GET /stats/aggregated for the same site_id and date are
\* the same StatsResult.
C16_StrategiesAgree ==
    (/\ report.code = 200
     /\ aggregated.code = 200
     /\ report.site_id = aggregated.site_id
     /\ report.date = aggregated.date)
    => /\ report.total_views = aggregated.total_views
       /\ report.unique_users = aggregated.unique_users
       /\ report.top_paths = aggregated.top_paths

\* The store records a report for site_id and date is about: those of the
\* site whose timestamp lies in the day.
MatchingEvents(site_id, date) ==
    {i \in DOMAIN store :
        /\ store[i].site_id = site_id
        /\ store[i].timestamp >= ParseDay(date)
        /\ store[i].timestamp < ParseDay(date) + DayMs}

\* A StatsResult counts the distinct non-empty user_id values of the
\* matching events, and lists no missing, null or empty path.
C17_Excludes(rep) ==
    rep.code = 200
    => /\ rep.unique_users =
            Cardinality({store[i].user_id : i \in
                {k \in MatchingEvents(rep.site_id, rep.date) :
                    store[k].user_id \notin {Absent, Null, ""}}})
       /\ \A k \in DOMAIN rep.top_paths :
             rep.top_paths[k].path \notin {Absent, Null, ""}

\* C17 (the claim as stated): under both strategies events without user_id
\* do not count as a user and events without path are in no top_paths entry.
C17_MissingExcluded == C17_Excludes(report) /\ C17_Excludes(aggregated)

\* The five fields of a store record.
Content(doc) ==
    [f \in {"site_id", "event_type", "path", "user_id", "timestamp"} |-> doc[f]]

C18_Counts(rep) ==
    rep.code = 200
    => rep.total_views = Cardinality(MatchingEvents(rep.site_id, rep.date))

C19_Bounded(rep) ==
    rep.code = 200
    => /\ rep.total_views \in Nat
       /\ rep.unique_users \in Nat
       /\ rep.unique_users <= rep.total_views

\* C19: in every StatsResult of either strategy unique_users and total_views
\* are natural numbers and unique_users is at most total_views.
C19_UsersAtMostViews == C19_Bounded(report) /\ C19_Bounded(aggregated)

\* C19 witness: both strategies report three views by one user.
C19_Witness ==
    /\ report.code = 200
    /\ aggregated.code = 200
    /\ report.total_views = 3
    /\ report.unique_users = 1
    /\ aggregated.total_views = 3
    /\ aggregated.unique_users = 1

\* The matching events a top_paths entry of path p stands for; the entry
\* null of the aggregation stands for the events without path.
C20_EventsOfPath(rep, p) ==
    {i \in MatchingEvents(rep.site_id, rep.date) :
        (IF store[i].path = Absent THEN Null ELSE store[i].path) = p}

C20_TopPaths(rep) ==
    rep.code = 200
    => LET top == rep.top_paths
           listed == {top[k].path : k \in DOMAIN top}
       IN /\ Len(top) <= 10
          /\ \A k \in DOMAIN top :
                /\ k < Len(top) => top[k].views >= top[k + 1].views
                /\ top[k].views = Cardinality(C20_EventsOfPath(rep, top[k].path))
                /\ top[k].views >= 1
                /\ \A m \in DOMAIN top : m # k => top[m].path # top[k].path
          /\ \A i \in MatchingEvents(rep.site_id, rep.date) :
                (store[i].path \notin {Absent, ""} /\ store[i].path \notin listed)
                => /\ Len(top) = 10
                   /\ \A k \in DOMAIN top :
                         top[k].views >=
                            Cardinality(C20_EventsOfPath(rep, store[i].path))

C21_FirstSeen(rep, p) ==
    CHOOSE i \in C20_EventsOfPath(rep, p) :
        \A k \in C20_EventsOfPath(rep, p) : i <= k

C21_TieBreak(rep) ==
    rep.code = 200
    => LET top == rep.top_paths
           listed == {top[k].path : k \in DOMAIN top}
       IN /\ \A k \in DOMAIN top, m \in DOMAIN top :
                (k < m /\ top[k].views = top[m].views)
                => C21_FirstSeen(rep, top[k].path) < C21_FirstSeen(rep, top[m].path)
          /\ \A i \in MatchingEvents(rep.site_id, rep.date) :
                (store[i].path \notin {Absent, ""} /\ store[i].path \notin listed)
                => \A k \in DOMAIN top :
                      top[k].views = Cardinality(C20_EventsOfPath(rep, store[i].path))
                      => C21_FirstSeen(rep, top[k].path) < i

\* C21 (the claim as stated): under both strategies, of two listed paths
\* with equal views the one whose first event was persisted first comes
\* first, whatever the path strings are, and a path left out by the
\* truncation was persisted after every listed path of equal views.
C21_TiesInPersistedOrder == C21_TieBreak(report) /\ C21_TieBreak(aggregated)

C22_Window(rep) ==
    rep.code = 200
    => LET start == ParseDay(rep.date)
       IN rep.total_views =
            Cardinality({i \in DOMAIN store :
                            /\ store[i].site_id = rep.site_id
                            /\ start <= store[i].timestamp
                            /\ store[i].timestamp <= start + 24 * 3600000 - 1})

\* C22 (the claim as stated): under both strategies the events counted for
\* date D are those from the first instant of D to its last millisecond, 24
\* hours in all: the event at 00:00:00.000 of the next day is not among them.
C22_WindowIsTheDay == C22_Window(report) /\ C22_Window(aggregated)

\* C23 (the claim as stated): once the four events of the example are all
\* processed, the report that counts the four of them is total_views 4,
\* unique_users 3 and top_paths /pricing 2, /blog/post-1 1, / 1, the tied
\* paths in the order of their submission.
C23_ExampleReport ==
    (/\ \A j \in DOMAIN jobs : jobs[j].state = "completed"
     /\ report.code = 200
     /\ report.total_views = Len(ExampleEvents))
    => /\ report.site_id = "site-abc-123"
       /\ report.date = "2025-11-15"
       /\ report.total_views = 4
       /\ report.unique_users = 3
       /\ report.top_paths = << [path |-> "/pricing", views |-> 2],
                                [path |-> "/blog/post-1", views |-> 1],
                                [path |-> "/", views |-> 1] >>

\* C24: a report request whose site_id or date is absent or empty is
\* answered, under both strategies, with the error of the parameter check,
\* which carries no field of a StatsResult; the store is not queried for it,
\* so a store that fails cannot change the reply.
C24_MissingParamsIsAnError ==
    \A s \in StatsSites, d \in StatsDates :
        (Falsy(s) \/ Falsy(d)) =>
            /\ StatsReply(s, d) = MissingParams
            /\ AggregatedReplies(s, d) = {MissingParams}
            /\ DOMAIN MissingParams \cap {"total_views", "unique_users", "top_paths"} = {}
            /\ ~ENABLED GetStatsFail(s, d)
            /\ ~ENABLED GetAggregatedFail(s, d)

C24_Witness ==
    /\ store # <<>>
    /\ report = MissingParams
    /\ aggregated = MissingParams

\* C25 (the claim as stated): every reply of a report request is either a
\* complete StatsResult or an error that carries none of total_views,
\* unique_users and top_paths, and a request whose date does not parse, like
\* one whose query fails in the store, gets the error.
C25_Complete(rep) ==
    \/ rep = NoReport
    \/ /\ rep.code = 200
       /\ DOMAIN rep = {"code", "site_id", "date", "total_views", "unique_users", "top_paths"}
       /\ ParseDay(rep.date) # InvalidDate
    \/ /\ rep.code \in {400, 500}
       /\ DOMAIN rep \cap {"total_views", "unique_users", "top_paths"} = {}

C25_NoPartialResult ==
    /\ C25_Complete(report)
    /\ C25_Complete(aggregated)
    /\ \A s \in StatsSites, d \in StatsDates :
           ParseDay(d) = InvalidDate =>
               /\ StatsReply(s, d).code # 200
               /\ \A rep \in AggregatedReplies(s, d) : rep.code # 200

\* C26: the Event Store is append-only and Events are immutable: no step of
\* the acceptor, the worker, the recovery of a crashed worker or a report
\* removes a persisted Event or changes one of its fields; a step leaves
\* every persisted Event where it is, with its site_id, event_type, path,
\* user_id and timestamp, and can only add Events after them.
C26_AppendOnly ==
    [][/\ Len(store') >= Len(store)
       /\ \A i \in DOMAIN store :
             /\ store'[i] = store[i]
             /\ \A f \in {"site_id", "event_type", "path", "user_id", "timestamp"} :
                    store'[i][f] = store[i][f]]_vars

C26_Witness ==
    /\ Len(store) = 2
    /\ store[1].job # store[2].job
    /\ report.code = 200
    /\ report.total_views = 2
    /\ \E j \in DOMAIN jobs : jobs[j].state = "completed"

\* C27: the acceptor never touches the store: a step of POST /event, be it
\* a rejection, a submission to the queue, a failed submission or the reply,
\* leaves the Event Store as it is, and the store changes only by the write
\* of a processor invocation, which appends that invocation's Event.
C27_AcceptorLeavesStore ==
    [][/\ requests' # requests => store' = store
       /\ store' # store =>
             /\ requests' = requests
             /\ \E r \in runs :
                   /\ r.pc = "process"
                   /\ [r EXCEPT !.pc = "saved"] \in runs'
                   /\ store' = Append(store, Saved(r))]_vars

C27_Witness ==
    /\ Len(requests) = 2
    /\ requests[1].res = AcceptedReply
    /\ requests[2].res.code \in {400, 500}
    /\ store = <<>>

\* C28 (the claim as stated): a report request, under either strategy and
\* whatever its outcome, leaves the Event Store and the queue unchanged, and
\* a report request answers with the StatsResult the request before it got
\* under the same strategy for the same site_id and date, when no Event was
\* written in between.
C28_SameResult(before, after) ==
    (/\ before.code = 200
     /\ after.code = 200
     /\ after.site_id = before.site_id
     /\ after.date = before.date) => after = before

C28_ReadOnlyAndRepeatable ==
    [][(report' # report \/ aggregated' # aggregated) =>
          /\ UNCHANGED <<requests, jobs, wait, runs, store>>
          /\ C28_SameResult(report, report')
          /\ C28_SameResult(aggregated, aggregated')]_vars

\* C29 (the claim as stated): whatever payloads are in the queue, every
\* persisted Event has a non-empty site_id, a non-empty event_type and a
\* valid timestamp instant, and a job whose payload lacks site_id, event_type
\* or timestamp, or carries a timestamp that does not parse, can only end its
\* lease with fail and never has an Event in the store.
C29_Lacks(x) == x \in {Absent, "", JsonNull}

C29_BadPayload(data) ==
    \/ C29_Lacks(data.site_id)
    \/ C29_Lacks(data.event_type)
    \/ C29_Lacks(data.timestamp)
    \/ ParseDate(data.timestamp) = InvalidDate

C30_PayloadFidelity ==
    /\ \A i \in DOMAIN store :
          /\ store[i].job \in DOMAIN requests
          /\ LET sub == requests[store[i].job]
             IN /\ sub.enq = "added"
                /\ sub.res \in {NoReply, AcceptedReply}
                /\ store[i].site_id = sub.cand.site_id
                /\ store[i].event_type = sub.cand.event_type
                /\ store[i].path = sub.cand.path
                /\ store[i].user_id = sub.cand.user_id
                /\ store[i].timestamp = ParseDate(sub.cand.timestamp)
                /\ store[i].timestamp # InvalidDate
                /\ sub.cand.path = Absent => store[i].path = Absent /\ store[i].path # ""
                /\ sub.cand.user_id = Absent => store[i].user_id = Absent /\ store[i].user_id # ""
    /\ \A r \in DOMAIN requests :
          requests[r].res.code = 400 =>
              \/ Falsy(requests[r].cand.site_id)
              \/ Falsy(requests[r].cand.event_type)
              \/ Falsy(requests[r].cand.timestamp)

C30_Witness ==
    \E i \in DOMAIN store :
        /\ requests[store[i].job].cand.path = Absent
        /\ requests[store[i].job].cand.user_id = Absent
        /\ requests[store[i].job].res = AcceptedReply
        /\ store[i].path = Absent
        /\ store[i].timestamp = 36300000

\* C31: within a lease the write comes before the ack: every completed job
\* has an Event in the store that was written from its payload, and every
\* processor invocation that is past its write, about to return, has the
\* record of its own lease in the store.
C31_AckFollowsWrite ==
    /\ \A j \in DOMAIN jobs :
          jobs[j].state = "completed" =>
              \E i \in DOMAIN store :
                  /\ store[i].job = j
                  /\ store[i].cycle <= jobs[j].leases
                  /\ \A f \in {"site_id", "event_type", "path", "user_id", "timestamp"} :
                         store[i][f] = EventDoc(jobs[j].data)[f]
    /\ \A r \in runs :
          r.pc = "saved" =>
              \E i \in DOMAIN store : store[i].job = r.job /\ store[i].cycle = r.cycle

\* C31 witness: one job is completed with its single record in the store,
\* and the invocation of another job has written and not yet returned.
C31_Witness ==
    /\ \E j \in DOMAIN jobs :
          /\ jobs[j].state = "completed"
          /\ Cardinality(EventsOf(j)) = 1
          /\ [job |-> j, event |-> "completed", message |-> ""] \in log
    /\ \E r \in runs : r.pc = "saved" /\ jobs[r.job].state = "active"

\* C32: the worker has no retry of its own: a lease writes at most one
\* Event, so no two persisted Events stem from the same lease of a job, and
\* a job has at most as many Events in the store as it has had leases.
C32_OneWritePerLease ==
    /\ \A i1 \in DOMAIN store, i2 \in DOMAIN store :
          (store[i1].job = store[i2].job /\ store[i1].cycle = store[i2].cycle) => i1 = i2
    /\ \A j \in DOMAIN jobs :
          /\ Cardinality(EventsOf(j)) <= jobs[j].leases
          /\ \A i \in EventsOf(j) : store[i].cycle \in 1..jobs[j].leases

\* C32 witness: a job that has had two leases, each of which wrote its
\* Event, next to a job whose single lease wrote nothing.
C32_Witness ==
    \E j \in DOMAIN jobs, k \in DOMAIN jobs :
        /\ jobs[j].leases = 2
        /\ {store[i].cycle : i \in EventsOf(j)} = {1, 2}
        /\ jobs[k].leases = 1
        /\ jobs[k].state = "failed"
        /\ EventsOf(k) = {}

\* The store records a report for site_id and date counts.
C33_Counted(site_id, date) ==
    {i \in DOMAIN store :
        InWindow(store[i], site_id, ParseDay(date), NextDay(ParseDay(date)))}

\* The reply given for a request is final, and the request of a job that
\* failed was not answered with an error.
C33_ReplyUnaffected ==
    /\ [](\A j \in DOMAIN jobs :
             jobs[j].state = "failed" => requests[j].res \in {NoReply, AcceptedReply})
    /\ [][\A r \in DOMAIN requests :
             requests[r].res # NoReply => requests'[r] = requests[r]]_vars

\* C33 (the claim as stated): the reply of accept is unaffected by what
\* happens to the job later, a report request does not fail because a job
\* failed, and the events of failed jobs are absent from the StatsResult: a
\* report counts the records of the jobs that did not fail.
C33_FailedJobsAbsent ==
    /\ C33_ReplyUnaffected
    /\ [](\A s \in QuerySites, d \in QueryDates :
             ~Falsy(s) =>
                 /\ StatsReply(s, d).code = 200
                 /\ StatsReply(s, d).total_views =
                      Cardinality({i \in C33_Counted(s, d) :
                                      jobs[store[i].job].state # "failed"}))

\* C33 (amended): the reply of accept is unaffected by what happens to the
\* job later, a report request does not fail because a job failed, and a
\* report counts the records that are in the store: a failed job of which no
\* lease wrote adds nothing, one of which a lease wrote is counted.
C33_FailuresNotSurfaced ==
    /\ C33_ReplyUnaffected
    /\ [](\A s \in QuerySites, d \in QueryDates :
             ~Falsy(s) =>
                 /\ StatsReply(s, d).code = 200
                 /\ StatsReply(s, d).total_views = Cardinality(C33_Counted(s, d))
                 /\ \A j \in DOMAIN jobs :
                       EventsOf(j) = {} => \A i \in C33_Counted(s, d) : store[i].job # j)

\* C33 witness: the first submission was answered 'accepted' and its job
\* failed without a record, and a report computed after that counts the one
\* view of the other job.
C33_Witness ==
    /\ DOMAIN jobs = {1, 2}
    /\ requests[1].res = AcceptedReply
    /\ jobs[1].state = "failed"
    /\ EventsOf(1) = {}
    /\ jobs[2].state = "completed"
    /\ report.code = 200
    /\ report.total_views = 1

==========================================================================
